---- MODULE Spec2Model ----
(***************************************************************************)
(* A model of scvi/models/jvae.py: the joint variational auto-encoder JVAE *)
(* (gimVI).  The state is the model instance (its per-dataset lists and    *)
(* its learned weights) and the record of the last call made on it.  Every *)
(* public method is one action.  Every tensor operation of the file works  *)
(* row by row (one row per cell), so a tensor is modelled by one row: a    *)
(* sequence of numbers, one per column.                                    *)
(*                                                                         *)
(* Numbers.  Counts and latent values are integers.  A value on the log    *)
(* scale is the pair <<"ln", n>>, the real number ln(n), with ln(0) the     *)
(* value torch.log(0) = -inf; exp(<<"ln", n>>) = n.  A normalised          *)
(* expression scale is a rational <<num, den>> in lowest terms.  A KL      *)
(* divergence is a formal sum (a bag) of KL terms, the empty bag being 0.  *)
(***************************************************************************)
EXTENDS Integers, Sequences, FiniteSets, Bags, TLC

\* ---------------------------------------------------------------- bounds
MaxDatasets == 2      \* the per-dataset lists have 0..MaxDatasets entries
MaxCount == 1         \* an observed count is in 0..MaxCount

\* ------------------------------------------- the constructor's parameters
TotalGenes == 2       \* total_genes, the width of the shared gene vocabulary
NLatent == 1          \* n_latent, the width of the latent space
NBatch == 1           \* n_batch
Dispersions == {"gene", "gene-batch", "gene-label", "gene-cell"}
LossKinds == <<"zinb", "nb", "poisson">>

\* ------------------------------------------------------ Python's values
NoneV == <<>>                       \* None
Some(v) == <<v>>                    \* a value that is not None
Val(o) == o[1]

Min(a, b) == IF a < b THEN a ELSE b

\* list[i] of a Python list, i an int or None: the item, or the error raised.
PyGetItem(list, i) ==
    IF i = NoneV THEN [err |-> "TypeError", val |-> NoneV]
    ELSE LET n == Len(list)
             k == Val(i)
         IN  IF k >= 0 /\ k < n THEN [err |-> "", val |-> Some(list[k + 1])]
             ELSE IF k < 0 /\ -k <= n THEN [err |-> "", val |-> Some(list[n + k + 1])]
             ELSE [err |-> "IndexError", val |-> NoneV]

\* ------------------------------------------------------------ rationals
RECURSIVE GCD(_, _)
GCD(a, b) == IF b = 0 THEN a ELSE GCD(b, a % b)

Rat(n, d) == IF d = 0 THEN <<(IF n = 0 THEN 0 ELSE 1), 0>>   \* nan, inf
             ELSE LET g == GCD(n, d) IN <<n \div g, d \div g>>
RAdd(p, q) == Rat(p[1] * q[2] + q[1] * p[2], p[2] * q[2])
RMul(p, q) == Rat(p[1] * q[1], p[2] * q[2])
RDiv(p, q) == Rat(p[1] * q[2], p[2] * q[1])

RECURSIVE RSum(_)
RSum(s) == IF s = <<>> THEN <<0, 1>> ELSE RAdd(Head(s), RSum(Tail(s)))

RECURSIVE ISum(_)
ISum(s) == IF s = <<>> THEN 0 ELSE Head(s) + ISum(Tail(s))

\* t[:, idx] of one row: the columns idx (0-based, repeats allowed) gathered.
Gather(row, idx) == [i \in 1..Len(idx) |-> row[idx[i] + 1]]

\* torch.log and torch.exp on the log scale.
Log(n) == <<"ln", n>>
Exp(l) == l[2]
Num(k) == <<"num", k>>


\* ------------------------------------------------------------- tensors
Genes == 0..(TotalGenes - 1)
Rows(width, vals) == [1..width -> vals]

\* The noise a reparameterised sample adds: to z (additive) and to the
\* library (a factor of exp(library), additive on the log scale).
ZNoise == {0, 1}
LNoise == {1, 2}

\* torch.log(1 + x): the row x marked as log-transformed.
Raw(x) == [log1p |-> FALSE, data |-> x]
Log1p(x) == [log1p |-> TRUE, data |-> x]

\* A number that depends on every entry of the (possibly transformed) row.
Mix(t) == ISum([i \in 1..Len(t.data) |-> i * t.data[i]]) + (IF t.log1p THEN 1 ELSE 0)

\* ------------------------------------------- the collaborating networks
\* MultiEncoder.forward(x_, head): (q_m, q_v, latent) of head `head`, or the
\* error of indexing the list of heads.
MultiEncoder(n_heads, x_, head, eps) ==
    LET pick == PyGetItem([i \in 1..n_heads |-> i - 1], head)
    IN  IF pick.err # "" THEN [err |-> pick.err, q_m |-> <<>>, q_v |-> <<>>, latent |-> <<>>]
        ELSE LET h == Mix(x_) + 2 * Val(pick.val)
                 m == [j \in 1..NLatent |-> ((h + j) % 3) - 1]
                 v == [j \in 1..NLatent |-> 1 + ((h + j) % 2)]
             IN  [err |-> "", q_m |-> m, q_v |-> v,
                  latent |-> [j \in 1..NLatent |-> m[j] + eps[j]]]

\* Encoder.forward(x_) of the library encoder of head `head`: (q_m, q_v,
\* latent), one log-scale value each.
LibraryEncoder(head, x_, eps) ==
    LET k == 1 + ((Mix(x_) + head) % 2)
    IN  [q_m |-> Log(k), q_v |-> 1 + ((Mix(x_) + head + 1) % 2), latent |-> Log(k * eps)]

\* MultiDecoder.forward(z, dataset_id, library, dispersion, batch_index, y):
\* (px_scale, px_r, px_rate, px_dropout) over the total_genes columns;
\* px_scale is a softmax, positive and summing to 1 over all the columns.
MultiDecoder(z, dataset_id, library, dispersion, batch_index, y) ==
    LET w == [g \in 1..TotalGenes |-> 1 + ((ISum(z) + (dataset_id + 1) * g) % 3)]
        scale == [g \in 1..TotalGenes |-> Rat(w[g], ISum(w))]
    IN  [px_scale |-> scale,
         px_r |-> [g \in 1..TotalGenes |-> Log(1 + ((ISum(z) + g) % 2))],
         px_rate |-> [g \in 1..TotalGenes |-> RMul(scale[g], <<Exp(library), 1>>)],
         px_dropout |-> [g \in 1..TotalGenes |-> (ISum(z) + dataset_id + g) % 2]]

\* ------------------------------------------------------------ the model
VARIABLES pc, args, self, call
vars == <<pc, args, self, call>>

NoCall == [op |-> "", x |-> <<>>, mode |-> NoneV, deterministic |-> FALSE,
           decode_mode |-> NoneV, local_l_mean |-> NoneV, local_l_var |-> NoneV,
           enc |-> NoneV, dec |-> NoneV, ret |-> NoneV, err |-> ""]

\* A constructor that checks the four lists to be equally long.
init_checked(dim_input_list, total_genes, indices_mappings, reconstruction_losses, model_library_bools, dispersion, log_variational) ==
    IF \/ Len(indices_mappings) # Len(dim_input_list)
       \/ Len(reconstruction_losses) # Len(dim_input_list)
       \/ Len(model_library_bools) # Len(dim_input_list)
    THEN [err |-> "ValueError", self |-> NoneV]
    ELSE [err |-> "",
          self |-> Some([
            n_input_list |-> dim_input_list,
            total_genes |-> total_genes,
            indices_mappings |-> indices_mappings,
            reconstruction_losses |-> reconstruction_losses,
            model_library_bools |-> model_library_bools,
            n_latent |-> NLatent,
            n_batch |-> NBatch,
            dispersion |-> dispersion,
            log_variational |-> log_variational,
            l_encoders |-> [i \in 1..Len(dim_input_list) |->
                               IF model_library_bools[i] THEN Some(i - 1) ELSE NoneV],
            px_r |-> [g \in 1..total_genes |-> [b \in 1..NBatch |-> Log(g + b)]]])]

\* JVAE.__init__: the fields of the instance, or the error raised.  The list
\* of library encoders reads model_library_bools[i] for every i in
\* range(len(n_input_list)); no other list is read.
init(dim_input_list, total_genes, indices_mappings, reconstruction_losses, model_library_bools, dispersion, log_variational) ==
    LET flags == [i \in 1..Len(dim_input_list) |->
                     PyGetItem(model_library_bools, Some(i - 1))]
    IN  IF \E i \in 1..Len(dim_input_list) : flags[i].err # ""
        THEN [err |-> "IndexError", self |-> NoneV]
        ELSE [err |-> "",
              self |-> Some([
                n_input_list |-> dim_input_list,
                total_genes |-> total_genes,
                indices_mappings |-> indices_mappings,
                reconstruction_losses |-> reconstruction_losses,
                model_library_bools |-> model_library_bools,
                n_latent |-> NLatent,
                n_batch |-> NBatch,
                dispersion |-> dispersion,
                log_variational |-> log_variational,
                l_encoders |-> [i \in 1..Len(dim_input_list) |->
                                   IF Val(flags[i].val) THEN Some(i - 1) ELSE NoneV],
                px_r |-> [g \in 1..total_genes |-> [b \in 1..NBatch |-> Log(g + b)]]])]

\* JVAE.encode
EncodeError(x, mode, e) ==
    [x |-> x, mode |-> mode, err |-> e, qz_m |-> NoneV, qz_v |-> NoneV, z |-> NoneV,
     ql_m |-> NoneV, ql_v |-> NoneV, library |-> NoneV]

\* The library taken from the transformed input: log(sum(log(1 + x))).
RECURSIVE IProd1p(_)
IProd1p(x) == IF x = <<>> THEN 1 ELSE (1 + Head(x)) * IProd1p(Tail(x))

library_of_transformed(x, x_) ==
    IF x_.log1p THEN (IF IProd1p(x) = 1 THEN Log(0) ELSE <<"lnln", IProd1p(x)>>)
    ELSE Log(ISum(x))

\* torch.log(torch.sum(x, dim=1)): the log of the total count of the raw row.
library_of_counts(x, x_) == Log(ISum(x))

encode(s, x, mode, ez, el) ==
    LET x_ == IF s.log_variational THEN Log1p(x) ELSE Raw(x)
        q == MultiEncoder(Len(s.n_input_list), x_, mode, ez)
        flag == PyGetItem(s.model_library_bools, mode)
        lenc == PyGetItem(s.l_encoders, mode)
    IN  IF q.err # "" THEN EncodeError(x, mode, q.err)
        ELSE IF flag.err # "" THEN EncodeError(x, mode, flag.err)
        ELSE IF Val(flag.val)
        THEN IF lenc.err # "" THEN EncodeError(x, mode, lenc.err)
             ELSE IF Val(lenc.val) = NoneV THEN EncodeError(x, mode, "TypeError")
             ELSE LET l == LibraryEncoder(Val(Val(lenc.val)), x_, el)
                  IN  [x |-> x, mode |-> mode, err |-> "",
                       qz_m |-> Some(q.q_m), qz_v |-> Some(q.q_v), z |-> Some(q.latent),
                       ql_m |-> Some(l.q_m), ql_v |-> Some(l.q_v),
                       library |-> Some(l.latent)]
        ELSE [x |-> x, mode |-> mode, err |-> "",
              qz_m |-> Some(q.q_m), qz_v |-> Some(q.q_v), z |-> Some(q.latent),
              ql_m |-> NoneV, ql_v |-> NoneV,
              library |-> Some(library_of_counts(x, x_))]

\* JVAE.decode
DecodeError(z, mode, library, e) ==
    [z |-> z, mode |-> mode, library |-> library, err |-> e, px_scale |-> NoneV,
     px_r |-> NoneV, px_rate |-> NoneV, px_dropout |-> NoneV]

\* A normalizer over the whole vocabulary instead of the gathered columns.
normalizer_all(s, px_scale, mode, idx) == RSum(px_scale)

\* torch.sum(px_scale[:, self.indices_mappings[mode]], dim=1)
normalizer(s, px_scale, mode, idx) == RSum(Gather(px_scale, idx))

decode(s, z, mode, library, batch_index, y) ==
    LET d == MultiDecoder(z, mode, library, s.dispersion, batch_index, y)
        px_r == IF s.dispersion = "gene-label"
                THEN [g \in 1..s.total_genes |-> s.px_r[g][y + 1]]
                ELSE IF s.dispersion = "gene-batch"
                THEN [g \in 1..s.total_genes |-> s.px_r[g][batch_index + 1]]
                ELSE IF s.dispersion = "gene"
                THEN s.px_r
                ELSE d.px_r
        idx == PyGetItem(s.indices_mappings, Some(mode))
    IN  IF idx.err # "" THEN DecodeError(z, mode, library, idx.err)
        ELSE LET n == normalizer(s, d.px_scale, mode, Val(idx.val))
                 px_scale == [g \in 1..s.total_genes |-> RDiv(d.px_scale[g], n)]
             IN  [z |-> z, mode |-> mode, library |-> library, err |-> "",
                  px_scale |-> Some(px_scale),
                  px_r |-> Some([g \in 1..s.total_genes |-> Exp(px_r[g])]),
                  px_rate |-> Some([g \in 1..s.total_genes |->
                                       RMul(px_scale[g], <<Exp(library), 1>>)]),
                  px_dropout |-> Some(d.px_dropout)]

\* JVAE.reconstruction_loss: the negative log-likelihood of the row, as a term.
reconstruction_loss(s, x, px_rate, px_r, px_dropout, mode) ==
    LET kind == PyGetItem(s.reconstruction_losses, mode)
    IN  IF kind.err # "" THEN [err |-> kind.err, val |-> NoneV]
        ELSE IF Val(kind.val) = "zinb"
        THEN [err |-> "", val |-> Some([nll |-> "zinb", x |-> x, rate |-> px_rate,
                                        r |-> px_r, dropout |-> px_dropout])]
        ELSE IF Val(kind.val) = "nb"
        THEN [err |-> "", val |-> Some([nll |-> "nb", x |-> x, rate |-> px_rate,
                                        r |-> px_r])]
        ELSE IF Val(kind.val) = "poisson"
        THEN [err |-> "", val |-> Some([nll |-> "poisson", x |-> x, rate |-> px_rate])]
        ELSE [err |-> "", val |-> NoneV]

\* torch.distributions.kl_divergence of two normal distributions, one entry:
\* zero when the two are the same distribution, else the term itself.
KLNormal(m1, v1, m2, v2) ==
    IF m1 = m2 /\ v1 = v2 THEN EmptyBag ELSE SetToBag({<<m1, v1, m2, v2>>})

RECURSIVE BagSum(_)
BagSum(s) == IF s = <<>> THEN EmptyBag ELSE Head(s) (+) BagSum(Tail(s))

\* kl(Normal(qz_m, sqrt(qz_v)), Normal(zeros_like, ones_like)).sum(dim=1)
kl_divergence_z(qz_m, qz_v) ==
    BagSum([j \in 1..Len(qz_m) |-> KLNormal(Num(qz_m[j]), qz_v[j], Num(0), 1)])

\* A library term measured against the standard normal prior.
kl_divergence_l_standard(flag, ql_m, ql_v, local_l_mean, local_l_var, kl_z) ==
    IF flag THEN BagSum(<<KLNormal(Val(ql_m), Val(ql_v), Num(0), 1)>>)
    ELSE EmptyBag

\* the library term of forward: the KL to the supplied prior, or zeros_like
kl_divergence_l(flag, ql_m, ql_v, local_l_mean, local_l_var, kl_z) ==
    IF flag THEN BagSum(<<KLNormal(Val(ql_m), Val(ql_v), local_l_mean, local_l_var)>>)
    ELSE EmptyBag

\* What a method leaves behind: the encode and decode it ran, and its value
\* or the exception it raised.
Result(e, d, ret, err) == [enc |-> e, dec |-> d, ret |-> ret, err |-> err]

\* A resolution that defaults to dataset 0 however many are registered.
forward_mode_first(s, mode) ==
    IF mode = NoneV THEN [err |-> "", mode |-> Some(0)] ELSE [err |-> "", mode |-> mode]

\* A resolution that also rejects a mode that names no registered dataset.
forward_mode_validated(s, mode) ==
    IF mode = NoneV
    THEN IF Len(s.n_input_list) = 1 THEN [err |-> "", mode |-> Some(0)]
         ELSE [err |-> "Exception", mode |-> NoneV]
    ELSE IF Val(mode) >= Len(s.n_input_list) THEN [err |-> "Exception", mode |-> NoneV]
    ELSE [err |-> "", mode |-> mode]

\* JVAE.forward, its first statement: the mode the call goes on with, or
\* Exception("Must provide a mode").
forward_mode(s, mode) ==
    IF mode = NoneV
    THEN IF Len(s.n_input_list) = 1 THEN [err |-> "", mode |-> Some(0)]
         ELSE [err |-> "Exception", mode |-> NoneV]
    ELSE [err |-> "", mode |-> mode]

\* JVAE.forward
forward(s, x, local_l_mean, local_l_var, batch_index, y, mode, ez, el) ==
    IF forward_mode(s, mode).err # ""
    THEN Result(NoneV, NoneV, NoneV, forward_mode(s, mode).err)
    ELSE
    LET m == forward_mode(s, mode).mode
        e == encode(s, x, m, ez, el)
        d == decode(s, Val(e.z), Val(m), Val(e.library), batch_index, y)
        mapping_indices == PyGetItem(s.indices_mappings, m)
        mi == Val(mapping_indices.val)
        rl == reconstruction_loss(s, x, Gather(Val(d.px_rate), mi), Gather(Val(d.px_r), mi),
                                  Gather(Val(d.px_dropout), mi), m)
        kl_z == kl_divergence_z(Val(e.qz_m), Val(e.qz_v))
        flag == PyGetItem(s.model_library_bools, m)
        kl_l == kl_divergence_l(Val(flag.val), e.ql_m, e.ql_v, local_l_mean, local_l_var, kl_z)
    IN  IF e.err # "" THEN Result(Some(e), NoneV, NoneV, e.err)
        ELSE IF d.err # "" THEN Result(Some(e), Some(d), NoneV, d.err)
        ELSE IF mapping_indices.err # "" THEN Result(Some(e), Some(d), NoneV, mapping_indices.err)
        ELSE IF rl.err # "" THEN Result(Some(e), Some(d), NoneV, rl.err)
        ELSE IF flag.err # "" THEN Result(Some(e), Some(d), NoneV, flag.err)
        ELSE Result(Some(e), Some(d), Some(<<rl.val, kl_l (+) kl_z>>), "")

\* JVAE.sample_from_posterior_z, its first statement: the mode the call goes
\* on with, or Exception("Must provide a mode when having multiple datasets").
sample_from_posterior_z_mode(s, mode) ==
    IF mode = NoneV
    THEN IF Len(s.n_input_list) = 1 THEN [err |-> "", mode |-> Some(0)]
         ELSE [err |-> "Exception", mode |-> NoneV]
    ELSE [err |-> "", mode |-> mode]

\* JVAE.sample_from_posterior_z
sample_from_posterior_z(s, x, mode, deterministic, ez, el) ==
    IF sample_from_posterior_z_mode(s, mode).err # ""
    THEN Result(NoneV, NoneV, NoneV, sample_from_posterior_z_mode(s, mode).err)
    ELSE
    LET m == sample_from_posterior_z_mode(s, mode).mode
        e == encode(s, x, m, ez, el)
    IN  IF e.err # "" THEN Result(Some(e), NoneV, NoneV, e.err)
        ELSE Result(Some(e), NoneV, IF deterministic THEN e.qz_m ELSE e.z, "")

\* An accessor that returns ql_m whenever deterministic is requested.
sample_from_posterior_l_unguarded(s, x, mode, deterministic, ez, el) ==
    LET e == encode(s, x, mode, ez, el)
    IN  IF e.err # "" THEN Result(Some(e), NoneV, NoneV, e.err)
        ELSE Result(Some(e), NoneV, IF deterministic THEN e.ql_m ELSE e.library, "")

\* An accessor that resolves an omitted mode as sample_from_posterior_z does.
sample_from_posterior_l_resolving(s, x, mode, deterministic, ez, el) ==
    IF sample_from_posterior_z_mode(s, mode).err # ""
    THEN Result(NoneV, NoneV, NoneV, sample_from_posterior_z_mode(s, mode).err)
    ELSE
    LET e == encode(s, x, sample_from_posterior_z_mode(s, mode).mode, ez, el)
    IN  IF e.err # "" THEN Result(Some(e), NoneV, NoneV, e.err)
        ELSE Result(Some(e), NoneV,
                    IF deterministic /\ e.ql_m # NoneV THEN e.ql_m ELSE e.library, "")

\* JVAE.sample_from_posterior_l
sample_from_posterior_l(s, x, mode, deterministic, ez, el) ==
    LET e == encode(s, x, mode, ez, el)
    IN  IF e.err # "" THEN Result(Some(e), NoneV, NoneV, e.err)
        ELSE Result(Some(e), NoneV,
                    IF deterministic /\ e.ql_m # NoneV THEN e.ql_m ELSE e.library, "")

\* A sample_scale that decodes through the tail of the encoding mode.
sample_scale_same_tail(s, x, mode, batch_index, y, deterministic, decode_mode, ez, el) ==
    LET e == encode(s, x, mode, ez, el)
        z == IF deterministic THEN e.qz_m ELSE e.z
        library == IF deterministic /\ e.ql_m # NoneV THEN e.ql_m ELSE e.library
        d == decode(s, Val(z), Val(mode), Val(library), batch_index, y)
    IN  IF e.err # "" THEN Result(Some(e), NoneV, NoneV, e.err)
        ELSE IF d.err # "" THEN Result(Some(e), Some(d), NoneV, d.err)
        ELSE Result(Some(e), Some(d), d.px_scale, "")

\* JVAE.sample_scale
sample_scale(s, x, mode, batch_index, y, deterministic, decode_mode, ez, el) ==
    LET dm == IF decode_mode = NoneV THEN mode ELSE decode_mode
        e == encode(s, x, mode, ez, el)
        z == IF deterministic THEN e.qz_m ELSE e.z
        library == IF deterministic /\ e.ql_m # NoneV THEN e.ql_m ELSE e.library
        d == decode(s, Val(z), Val(dm), Val(library), batch_index, y)
    IN  IF e.err # "" THEN Result(Some(e), NoneV, NoneV, e.err)
        ELSE IF d.err # "" THEN Result(Some(e), Some(d), NoneV, d.err)
        ELSE Result(Some(e), Some(d), d.px_scale, "")

\* A sample_rate whose deterministic request leaves the library sampled.
sample_rate_sampled_library(s, x, mode, batch_index, y, deterministic, decode_mode, ez, el) ==
    LET dm == IF decode_mode = NoneV THEN mode ELSE decode_mode
        e == encode(s, x, mode, ez, el)
        z == IF deterministic THEN e.qz_m ELSE e.z
        d == decode(s, Val(z), Val(dm), Val(e.library), batch_index, y)
    IN  IF e.err # "" THEN Result(Some(e), NoneV, NoneV, e.err)
        ELSE IF d.err # "" THEN Result(Some(e), Some(d), NoneV, d.err)
        ELSE Result(Some(e), Some(d), d.px_rate, "")

\* JVAE.sample_rate
sample_rate(s, x, mode, batch_index, y, deterministic, decode_mode, ez, el) ==
    LET dm == IF decode_mode = NoneV THEN mode ELSE decode_mode
        e == encode(s, x, mode, ez, el)
        z == IF deterministic THEN e.qz_m ELSE e.z
        library == IF deterministic /\ e.ql_m # NoneV THEN e.ql_m ELSE e.library
        d == decode(s, Val(z), Val(dm), Val(library), batch_index, y)
    IN  IF e.err # "" THEN Result(Some(e), NoneV, NoneV, e.err)
        ELSE IF d.err # "" THEN Result(Some(e), Some(d), NoneV, d.err)
        ELSE Result(Some(e), Some(d), d.px_rate, "")

\* JVAE.get_sample_rate
get_sample_rate(s, x, batch_index, ez, el) ==
    sample_rate(s, x, Some(0), batch_index, NoneV, FALSE, NoneV, ez, el)

\* ------------------------------------------------------------- inputs
\* reconstruction_losses of n datasets: the kinds taken in turn, starting so
\* that models of one and of two datasets use all three between them.
KindsFor(n) == [i \in 1..n |-> LossKinds[((n + i - 2) % 3) + 1]]

\* An index mapping: the columns of the shared vocabulary a dataset
\* observes, a slice a..b-1 of it.
Panels == {[i \in 1..(b - a) |-> a + i - 1] : a \in Genes, b \in 1..TotalGenes} \ {<<>>}

ModeArgs == {NoneV} \cup {Some(m) : m \in 0..MaxDatasets}
IntModes == {Some(m) : m \in 0..MaxDatasets}

\* The rows a caller passes with `mode`: of the width registered for the
\* dataset the call encodes (dataset 0 when mode names none).
XRows(s, mode) ==
    LET n == Len(s.n_input_list)
        i == IF mode # NoneV /\ Val(mode) < n THEN Val(mode) ELSE 0
    IN  Rows(IF n = 0 THEN 1 ELSE s.n_input_list[i + 1], 0..MaxCount)

ZEps == [1..NLatent -> ZNoise]
LocalLMeans == {Log(1), Log(2)}
LocalLVars == {1}

\* ------------------------------------------------------------- actions
Init ==
    /\ pc = "new"
    /\ args = NoneV
    /\ self = NoneV
    /\ call = NoCall

\* JVAE(...): the constructor runs; the instance exists only if it returns.
Construct(dim_input_list, indices_mappings, reconstruction_losses, model_library_bools, log_variational) ==
    LET r == init(dim_input_list, TotalGenes, indices_mappings, reconstruction_losses,
                  model_library_bools, "gene-batch", log_variational)
    IN  /\ args' = Some([dim_input_list |-> dim_input_list,
                         indices_mappings |-> indices_mappings,
                         reconstruction_losses |-> reconstruction_losses,
                         model_library_bools |-> model_library_bools,
                         err |-> r.err])
        /\ self' = r.self
        /\ pc' = IF r.err = "" THEN "ready" ELSE "failed"
        /\ UNCHANGED call

\* Construction that honours the precondition: one entry per dataset in
\* each list, and each mapping as long as its dataset is wide.
NewModel ==
    /\ pc = "new"
    /\ \E n \in 0..MaxDatasets :
         \E maps \in [1..n -> Panels], bools \in [1..n -> BOOLEAN] :
           Construct([i \in 1..n |-> Len(maps[i])], maps, KindsFor(n), bools, TRUE)

\* Construction with lists of any lengths.
NewModelAnyLengths ==
    /\ pc = "new"
    /\ \E nd \in 0..MaxDatasets, nm \in 0..MaxDatasets, nl \in 0..MaxDatasets,
          nb \in 0..MaxDatasets :
         \E dims \in [1..nd -> 1..TotalGenes], maps \in [1..nm -> Panels],
            bools \in [1..nb -> BOOLEAN] :
           /\ \A i \in 1..Min(nd, nm) : Len(maps[i]) = dims[i]
           /\ Construct(dims, maps, KindsFor(nl), bools, TRUE)

Called(op, x, mode, deterministic, decode_mode, local_l_mean, local_l_var, r) ==
    /\ call' = [op |-> op, x |-> x, mode |-> mode, deterministic |-> deterministic,
                decode_mode |-> decode_mode, local_l_mean |-> local_l_mean,
                local_l_var |-> local_l_var,
                enc |-> r.enc, dec |-> r.dec, ret |-> r.ret, err |-> r.err]
    /\ pc' = "returned"
    /\ UNCHANGED <<args, self>>

\* The caller takes the value or the exception; the model can be called again.
Return ==
    /\ pc = "returned"
    /\ pc' = "ready"
    /\ call' = NoCall
    /\ UNCHANGED <<args, self>>

Forward ==
    /\ pc = "ready"
    /\ \E mode \in ModeArgs, ez \in ZEps, el \in LNoise, lm \in LocalLMeans,
          lv \in LocalLVars :
         \E x \in XRows(Val(self), mode) :
           Called("forward", x, mode, FALSE, NoneV, Some(lm), Some(lv),
                  forward(Val(self), x, lm, lv, 0, NoneV, mode, ez, el))

SampleFromPosteriorZ ==
    /\ pc = "ready"
    /\ \E mode \in ModeArgs, ez \in ZEps, el \in LNoise, det \in BOOLEAN :
         \E x \in XRows(Val(self), mode) :
           Called("sample_from_posterior_z", x, mode, det, NoneV, NoneV, NoneV,
                  sample_from_posterior_z(Val(self), x, mode, det, ez, el))

SampleFromPosteriorL ==
    /\ pc = "ready"
    /\ \E mode \in ModeArgs, ez \in ZEps, el \in LNoise, det \in BOOLEAN :
         \E x \in XRows(Val(self), mode) :
           Called("sample_from_posterior_l", x, mode, det, NoneV, NoneV, NoneV,
                  sample_from_posterior_l(Val(self), x, mode, det, ez, el))

SampleScale ==
    /\ pc = "ready"
    /\ \E mode \in IntModes, dm \in ModeArgs, ez \in ZEps, el \in LNoise,
          det \in BOOLEAN :
         \E x \in XRows(Val(self), mode) :
           Called("sample_scale", x, mode, det, dm, NoneV, NoneV,
                  sample_scale(Val(self), x, mode, 0, NoneV, det, dm, ez, el))

SampleRate ==
    /\ pc = "ready"
    /\ \E mode \in IntModes, dm \in ModeArgs, ez \in ZEps, el \in LNoise,
          det \in BOOLEAN :
         \E x \in XRows(Val(self), mode) :
           Called("sample_rate", x, mode, det, dm, NoneV, NoneV,
                  sample_rate(Val(self), x, mode, 0, NoneV, det, dm, ez, el))

GetSampleRate ==
    /\ pc = "ready"
    /\ \E ez \in ZEps, el \in LNoise :
         \E x \in XRows(Val(self), Some(0)) :
           Called("get_sample_rate", x, Some(0), FALSE, NoneV, NoneV, NoneV,
                  get_sample_rate(Val(self), x, 0, ez, el))

Next ==
    \/ NewModel
    \/ Forward
    \/ SampleFromPosteriorZ
    \/ SampleFromPosteriorL
    \/ SampleScale
    \/ SampleRate
    \/ GetSampleRate
    \/ Return

Spec == Init /\ [][Next]_vars

NextCtor == NewModelAnyLengths

SpecCtor == Init /\ [][NextCtor]_vars

\* -------------------------------------------------------------- claims
S == Val(self)
E == Val(call.enc)
D == Val(call.dec)
NDatasets == Len(S.n_input_list)
Returned(op) == pc = "returned" /\ call.op = op
Flag(mode) == S.model_library_bools[Val(mode) + 1]
Mapping(mode) == S.indices_mappings[Val(mode) + 1]
One == <<1, 1>>

\* C1: in forward and sample_from_posterior_z an omitted mode goes on as
\* mode 0 when exactly one dataset is registered, and with more than one
\* dataset raises the configuration error before any encoding, returning
\* nothing.
C1_OmittedMode ==
    (pc = "returned" /\ call.op \in {"forward", "sample_from_posterior_z"}
       /\ call.mode = NoneV)
    => /\ NDatasets = 1 =>
            /\ call.enc # NoneV /\ E.mode = Some(0)
            /\ call.err = "" /\ call.ret # NoneV
       /\ NDatasets > 1 =>
            /\ call.err = "Exception"
            /\ call.enc = NoneV /\ call.dec = NoneV /\ call.ret = NoneV

C1_Witness ==
    /\ Returned("forward") /\ call.mode = NoneV
    /\ NDatasets = 2 /\ call.err = "Exception" /\ call.enc = NoneV

\* C2 as stated: sample_rate with deterministic=True and decode_mode=mode
\* returns the px_rate of forward's own decode step.
C2_Original ==
    (Returned("forward") /\ call.err = "")
    => \A ez \in ZEps, el \in LNoise :
          sample_rate(S, call.x, E.mode, 0, NoneV, TRUE, E.mode, ez, el).ret = D.px_rate

\* C2 amended: forward decodes the sampled z and the sampled library, so
\* the two px_rate are equal when the sample z is qz_m and the library is
\* ql_m or is not sampled at all (the mode does not model the library).
C2_RoundTrip ==
    (Returned("forward") /\ call.err = ""
       /\ E.z = E.qz_m /\ (E.ql_m = NoneV \/ E.library = E.ql_m))
    => \A ez \in ZEps, el \in LNoise :
          sample_rate(S, call.x, E.mode, 0, NoneV, TRUE, E.mode, ez, el).ret = D.px_rate

C2_Witness ==
    /\ Returned("forward") /\ call.err = ""
    /\ E.z = E.qz_m /\ E.ql_m # NoneV /\ E.library = E.ql_m
    /\ D.px_rate # NoneV

\* C3 as stated: per-dataset lists of different lengths never give an
\* instance.
ArgLengths ==
    {Len(Val(args).dim_input_list), Len(Val(args).indices_mappings),
     Len(Val(args).reconstruction_losses), Len(Val(args).model_library_bools)}

C3_Original ==
    (pc # "new" /\ Cardinality(ArgLengths) > 1) => (pc = "failed" /\ self = NoneV)

\* C3 amended: construction fails, with the index error of reading
\* model_library_bools[i], exactly when model_library_bools has fewer
\* entries than dim_input_list; any other lengths give an instance.
C3_ShortBools ==
    pc # "new"
    => IF Len(Val(args).model_library_bools) < Len(Val(args).dim_input_list)
       THEN pc = "failed" /\ self = NoneV /\ Val(args).err = "IndexError"
       ELSE pc = "ready" /\ self # NoneV /\ Val(args).err = ""

C3_Witness ==
    /\ pc = "failed" /\ self = NoneV
    /\ Len(Val(args).model_library_bools) < Len(Val(args).dim_input_list)
    /\ Len(Val(args).indices_mappings) = Len(Val(args).dim_input_list)

\* C4: for a registered mode encode returns qz_m, qz_v, z and library,
\* returns ql_m and ql_v exactly when the mode models the library, and
\* else the library is the log of the total count of the raw input.
Registered(mode) == mode # NoneV /\ Val(mode) >= 0 /\ Val(mode) < NDatasets

C4_Encode ==
    (pc = "returned" /\ call.enc # NoneV /\ Registered(E.mode))
    => /\ E.err = ""
       /\ E.qz_m # NoneV /\ E.qz_v # NoneV /\ E.z # NoneV /\ E.library # NoneV
       /\ (E.ql_m # NoneV) <=> Flag(E.mode)
       /\ (E.ql_v # NoneV) <=> Flag(E.mode)
       /\ ~Flag(E.mode) => E.library = Some(Log(ISum(E.x)))

C4_Witness ==
    /\ pc = "returned" /\ call.enc # NoneV /\ Registered(E.mode)
    /\ ~Flag(E.mode) /\ S.log_variational /\ ISum(E.x) > 1
    /\ E.ql_m = NoneV /\ E.library = Some(Log(ISum(E.x)))

\* C5: the px_scale decode returns sums to 1 over the columns of the
\* mode's index mapping, and px_rate is that px_scale times exp(library).
C5_Renormalized ==
    (pc = "returned" /\ call.dec # NoneV /\ D.err = "")
    => /\ RSum(Gather(Val(D.px_scale), Mapping(Some(D.mode)))) = One
       /\ \A g \in 1..S.total_genes :
             Val(D.px_rate)[g] = RMul(Val(D.px_scale)[g], <<Exp(D.library), 1>>)

C5_Witness ==
    /\ pc = "returned" /\ call.dec # NoneV /\ D.err = ""
    /\ NDatasets = 2 /\ S.indices_mappings = <<(<<0>>), (<<1>>)>>
    /\ D.mode = 1 /\ Val(D.px_scale)[2] = One /\ Val(D.px_scale)[1] # One

\* C6 as stated: with one dataset, forward with mode=1 raises the
\* configuration error.
C6_Original ==
    (Returned("forward") /\ NDatasets = 1 /\ call.mode = Some(1))
    => (call.err = "Exception" /\ call.ret = NoneV)

\* C6 amended: with one dataset, forward with mode=1 raises the index error
\* of indexing the per-dataset lists inside encode, not the configuration
\* error of an omitted mode; it returns no loss pair.
C6_UnregisteredMode ==
    (Returned("forward") /\ NDatasets = 1 /\ call.mode = Some(1))
    => /\ call.err = "IndexError" /\ call.ret = NoneV
       /\ call.enc # NoneV /\ E.mode = Some(1) /\ call.dec = NoneV

C6_Witness ==
    /\ Returned("forward") /\ NDatasets = 1 /\ call.mode = Some(1)
    /\ call.err = "IndexError" /\ call.ret = NoneV

\* C7: the second value forward returns is kl_z + kl_library; kl_library is
\* zero when the mode does not model the library (the value is kl_z), and
\* else the KL of (ql_m, ql_v) to the prior (local_l_mean, local_l_var).
C7_KL ==
    (Returned("forward") /\ call.err = "")
    => LET kl_z == kl_divergence_z(Val(E.qz_m), Val(E.qz_v))
       IN  IF Flag(E.mode)
           THEN Val(call.ret)[2] =
                  kl_z (+) KLNormal(Val(E.ql_m), Val(E.ql_v),
                                    Val(call.local_l_mean), Val(call.local_l_var))
           ELSE Val(call.ret)[2] = kl_z

C7_Witness ==
    /\ Returned("forward") /\ call.err = "" /\ Flag(E.mode)
    /\ Val(E.ql_m) # Val(call.local_l_mean)
    /\ Val(call.ret)[2] # kl_divergence_z(Val(E.qz_m), Val(E.qz_v))

\* C8: sample_from_posterior_l returns ql_m (deterministic) or the sampled
\* library when the mode models the library, and else the log of the total
\* count whatever deterministic is; never None.
C8_PosteriorL ==
    (Returned("sample_from_posterior_l") /\ call.err = "")
    => /\ call.ret # NoneV
       /\ call.ret = IF Flag(E.mode)
                     THEN (IF call.deterministic THEN E.ql_m ELSE E.library)
                     ELSE Some(Log(ISum(call.x)))

C8_Witness ==
    /\ Returned("sample_from_posterior_l") /\ call.err = ""
    /\ call.deterministic /\ ~Flag(E.mode)
    /\ call.ret = Some(Log(ISum(call.x)))

\* C9: sample_scale and sample_rate encode with mode and decode with
\* decode_mode (mode when omitted): the tail and the index mapping of the
\* decode are those of decode_mode, and the value returned is the px_scale,
\* or the px_rate, of that decode.
DecodeMode == IF call.decode_mode = NoneV THEN call.mode ELSE call.decode_mode

C9_CrossDataset ==
    (pc = "returned" /\ call.op \in {"sample_scale", "sample_rate"} /\ call.err = "")
    => /\ E.mode = call.mode
       /\ (E.ql_m # NoneV) <=> Flag(call.mode)
       /\ D.mode = Val(DecodeMode)
       /\ D.z = Val(IF call.deterministic THEN E.qz_m ELSE E.z)
       /\ D.px_scale = decode(S, D.z, Val(DecodeMode), D.library, 0, NoneV).px_scale
       /\ RSum(Gather(Val(D.px_scale), Mapping(DecodeMode))) = One
       /\ call.ret = IF call.op = "sample_scale" THEN D.px_scale ELSE D.px_rate

C9_Witness ==
    /\ Returned("sample_scale") /\ call.err = ""
    /\ call.mode = Some(0) /\ call.decode_mode = Some(1)
    /\ Mapping(Some(0)) # Mapping(Some(1))
    /\ D.mode = 1

\* C10: sample_from_posterior_l hands an omitted mode to encode as it is:
\* even with one dataset it neither goes on as mode 0 nor raises the
\* configuration error.
C10_NoResolution ==
    (Returned("sample_from_posterior_l") /\ call.mode = NoneV)
    => /\ call.enc # NoneV /\ E.mode = NoneV
       /\ call.err # "Exception" /\ call.err # ""
       /\ call.ret = NoneV

C10_Witness ==
    /\ Returned("sample_from_posterior_l") /\ call.mode = NoneV
    /\ NDatasets = 1 /\ E.mode = NoneV /\ call.err = "TypeError"

====
